---------------------------- MODULE Spec2Model ----------------------------
(***************************************************************************)
(* A model of the parser combinator library in src/src/lib.rs.             *)
(*                                                                         *)
(* Parsers are values (tagged tuples), a parse is the recursive operator   *)
(* Parse(p, input), translated combinator by combinator from the impls of  *)
(* the Parser trait.  Three state machines drive the operators:            *)
(*   Spec     a caller that starts a parse on an input, calls a parser on  *)
(*            the state it holds and continues from the state returned;    *)
(*   ErrSpec  the ParseError values reachable through ParseError::new,     *)
(*            add_error, add_message and merge;                            *)
(*   LoopSpec the loop of ManyAppend::parse, one iteration a step.         *)
(***************************************************************************)
EXTENDS Integers, Sequences, FiniteSets, TLC

VARIABLES state,      \* the State<&str> the caller holds
          consumed,   \* history: the characters consumed since start_parse
          last,       \* the last call of Parser::parse: parser, argument, result
          error1,     \* a ParseError value (ErrSpec)
          error2,     \* a second ParseError value (ErrSpec)
          run         \* a run of the loop of ManyAppend::parse (LoopSpec)

vars == <<state, consumed, last, error1, error2, run>>

(***************************************************************************)
(* Bounds.                                                                 *)
(***************************************************************************)
\* longest input string handed to start_parse
MaxLen == 3

\* most results the model lets a run of the many_append loop push
MaxIter == 5

\* the characters of the inputs: a letter, a digit, the separator, a newline
Chars == {"a", "1", ",", "\n"}

RECURSIVE SeqsUpTo(_)
SeqsUpTo(n) ==
    IF n = 0 THEN {<<>>}
    ELSE LET shorter == SeqsUpTo(n - 1)
         IN  shorter \cup {Append(s, c) : s \in shorter, c \in Chars}

Inputs == SeqsUpTo(MaxLen)

(***************************************************************************)
(* SourcePosition: two i32 counters.                                       *)
(***************************************************************************)
\* the largest i32
I32_MAX == 2147483647

\* i32 += 1: two's complement wrap-around
Inc32(n) == IF n = I32_MAX THEN (-I32_MAX) - 1 ELSE n + 1

start == [line |-> 1, column |-> 1]

\* a plausible slip: the newline branch resets the column and forgets the line
update_noline(self, c) ==
    IF c = "\n" THEN [self EXCEPT !.column = 1]
    ELSE [self EXCEPT !.column = Inc32(self.column)]

\* a plausible slip: the column is incremented after the newline test
update_late(self, c) ==
    LET s1 == IF c = "\n"
              THEN [line |-> Inc32(self.line), column |-> 1]
              ELSE self
    IN  [s1 EXCEPT !.column = Inc32(s1.column)]

update(self, c) ==
    LET s1 == [self EXCEPT !.column = Inc32(self.column)]
    IN  IF c = "\n"
        THEN [line |-> Inc32(s1.line), column |-> 1]
        ELSE s1

(***************************************************************************)
(* Error and ParseError.                                                   *)
(***************************************************************************)
Unexpected(c) == <<"Unexpected", c>>
Expected(s)   == <<"Expected", s>>
Message(m)    == <<"Message", m>>

ParseError_new(position, error) ==
    [position |-> position, errors |-> <<error>>]

\* a plausible slip: the duplicate test is missing
add_error_nodedup(self, message) ==
    [self EXCEPT !.errors = Append(@, message)]

add_error(self, message) ==
    IF ~ \E i \in 1..Len(self.errors) : self.errors[i] = message
    THEN [self EXCEPT !.errors = Append(@, message)]
    ELSE self

add_message(self, message) == add_error(self, Message(message))

\* a plausible slip: the merged error takes the position of the other error
merge_otherpos(self, other) ==
    LET RECURSIVE loop(_, _)
        loop(acc, rest) ==
            IF rest = <<>> THEN acc
            ELSE loop(add_error(acc, Head(rest)), Tail(rest))
    IN  [loop(self, other.errors) EXCEPT !.position = other.position]

\* a plausible slip: the loop returns after the first reason of the other error
merge_first(self, other) ==
    IF other.errors = <<>> THEN self
    ELSE add_error(self, Head(other.errors))

merge(self, other) ==
    LET RECURSIVE loop(_, _)
        loop(acc, rest) ==
            IF rest = <<>> THEN acc
            ELSE loop(add_error(acc, Head(rest)), Tail(rest))
    IN  loop(self, other.errors)

(***************************************************************************)
(* State, Stream and ParseResult.                                          *)
(***************************************************************************)
Ok(value, rest) == <<"Ok", value, rest>>
Err(error)      == <<"Err", error>>
\* the call does not return: a loop that repeats the same iteration for ever
Diverge         == <<"Diverge">>

IsOk(r)  == r[1] = "Ok"
IsErr(r) == r[1] = "Err"

State_new(input) == [position |-> start, input |-> input]

\* impl Stream for &str: slice_shift_char
Stream_uncons(input) ==
    IF input = <<>> THEN <<"Err">>
    ELSE <<"Ok", Head(input), Tail(input)>>

\* State::uncons with f = SourcePosition::update
uncons_char(self) ==
    LET u == Stream_uncons(self.input)
    IN  IF u[1] = "Ok"
        THEN Ok(u[2], [position |-> update(self.position, u[2]),
                       input |-> u[3]])
        ELSE Err(ParseError_new(self.position, Message("End of input")))

(***************************************************************************)
(* Parsers.  A parser is a tagged tuple:                                   *)
(*   <<"char">>  <<"digit">>  <<"satisfy", pred>>  <<"string", s>>         *)
(*   <<"many", p>>  <<"many1", p>>  <<"sep_by", p, sep>>  <<"optional", p>>*)
(*   <<"and", p, q>>  <<"with", p, q>>  <<"skip", p, q>>  <<"or", p, q>>   *)
(*   <<"map", p, f>>  <<"message", p, msg>>                                *)
(* Values: a character is a string, a Vec a sequence, a pair a 2-tuple,    *)
(* an Option <<"Some", v>> or <<"None">>.                                  *)
(***************************************************************************)
RECURSIVE Parse(_, _)

\* the predicates the tests hand to satisfy, on the characters of Chars
Pred(name, c) ==
    CASE name = "is_a"            -> c = "a"
      [] name = "is_comma"        -> c = ","
      [] name = "is_whitespace"   -> c = "\n"
      [] name = "is_alphanumeric" -> c \in {"a", "1"}

\* the characters of the literals handed to string
StrChars(s) ==
    CASE s = "a1" -> <<"a", "1">>
      [] s = "a," -> <<"a", ",">>
      [] s = "1"  -> <<"1">>

\* the functions handed to map: Expr::Id wraps its argument
MapFn(f, x) == <<f, x>>

char(input) == uncons_char(input)

\* a plausible slip: the loop ends with the error of the failing application
ManyAppend_parse_err(parser, vec, input) ==
    LET RECURSIVE loop(_, _)
        loop(v, inp) ==
            LET r == Parse(parser, inp)
            IN  IF IsOk(r)
                THEN IF r[3] = inp THEN Diverge
                     ELSE loop(Append(v, r[2]), r[3])
                ELSE r
    IN  loop(vec, input)

\* The loop of many_append.  The value of the model's result is the content
\* of the caller's buffer (vec) when the call returns; the code returns ().
\* An application that succeeds and returns the state it was given is
\* repeated for ever on that state: the call diverges.
ManyAppend_parse(parser, vec, input) ==
    LET RECURSIVE loop(_, _)
        loop(v, inp) ==
            LET r == Parse(parser, inp)
            IN  IF IsOk(r)
                THEN IF r[3] = inp THEN Diverge
                     ELSE loop(Append(v, r[2]), r[3])
                ELSE IF IsErr(r) THEN Ok(v, inp)
                ELSE Diverge
    IN  loop(vec, input)

Many_parse(self, input) ==
    LET r == ManyAppend_parse(self[2], <<>>, input)
    IN  IF IsOk(r) THEN Ok(r[2], r[3]) ELSE r

Many1_parse(self, input) ==
    LET r1 == Parse(self[2], input)
    IN  IF IsOk(r1)
        THEN LET r == ManyAppend_parse(self[2], <<r1[2]>>, r1[3])
             IN  IF IsOk(r) THEN Ok(r[2], r[3]) ELSE r
        ELSE r1

\* a plausible slip: the separator and the parser are run one after the
\* other on the loop's own state, so a separator that is not followed
\* by an element stays consumed
SepBy_parse_greedy(self, input) ==
    LET RECURSIVE loop(_, _)
        loop(v, inp) ==
            LET rs == Parse(self[3], inp)
            IN  IF IsOk(rs)
                THEN LET rp == Parse(self[2], rs[3])
                     IN  IF IsOk(rp) THEN loop(Append(v, rp[2]), rp[3])
                         ELSE IF IsErr(rp) THEN Ok(v, rs[3])
                         ELSE Diverge
                ELSE IF IsErr(rs) THEN Ok(v, inp)
                ELSE Diverge
        r1 == Parse(self[2], input)
    IN  IF IsOk(r1) THEN loop(<<r1[2]>>, r1[3])
        ELSE IF IsErr(r1) THEN Ok(<<>>, input)
        ELSE Diverge

SepBy_parse(self, input) ==
    LET r1 == Parse(self[2], input)
    IN  IF IsOk(r1)
        THEN LET rest == <<"with", self[3], self[2]>>
                 r == ManyAppend_parse(rest, <<r1[2]>>, r1[3])
             IN  IF IsOk(r) THEN Ok(r[2], r[3]) ELSE r
        ELSE IF IsErr(r1) THEN Ok(<<>>, input)
        ELSE Diverge

\* a plausible slip: the error carries the position after the character
Satisfy_parse_after(self, input) ==
    LET r == uncons_char(input)
    IN  IF IsOk(r)
        THEN IF Pred(self[2], r[2]) THEN Ok(r[2], r[3])
             ELSE Err(ParseError_new(r[3].position, Unexpected(r[2])))
        ELSE r

Satisfy_parse(self, input) ==
    LET r == uncons_char(input)
    IN  IF IsOk(r)
        THEN IF Pred(self[2], r[2]) THEN Ok(r[2], r[3])
             ELSE Err(ParseError_new(input.position, Unexpected(r[2])))
        ELSE r

StringP_parse(self, input) ==
    LET RECURSIVE loop(_, _)
        loop(cs, inp) ==
            IF cs = <<>> THEN Ok(self[2], inp)
            ELSE LET r == uncons_char(inp)
                 IN  IF IsOk(r)
                     THEN IF Head(cs) # r[2]
                          THEN Err(ParseError_new(inp.position,
                                                  Expected(self[2])))
                          ELSE loop(Tail(cs), r[3])
                     ELSE r
    IN  loop(StrChars(self[2]), input)

And_parse(self, input) ==
    LET ra == Parse(self[2], input)
    IN  IF IsOk(ra)
        THEN LET rb == Parse(self[3], ra[3])
             IN  IF IsOk(rb) THEN Ok(<<ra[2], rb[2]>>, rb[3]) ELSE rb
        ELSE ra

\* a plausible slip: the failure of the parser is passed on
Optional_parse_fail(self, input) ==
    LET r == Parse(self[2], input)
    IN  IF IsOk(r) THEN Ok(<<"Some", r[2]>>, r[3]) ELSE r

Optional_parse(self, input) ==
    LET r == Parse(self[2], input)
    IN  IF IsOk(r) THEN Ok(<<"Some", r[2]>>, r[3])
        ELSE IF IsErr(r) THEN Ok(<<"None">>, input)
        ELSE Diverge

digit(input) ==
    LET r == uncons_char(input)
    IN  IF IsOk(r)
        THEN IF r[2] = "1" THEN Ok(r[2], r[3])
             ELSE Err(ParseError_new(input.position,
                                     Message("Expected digit")))
        ELSE r

With_parse(self, input) ==
    LET r == And_parse(<<"and", self[2], self[3]>>, input)
    IN  IF IsOk(r) THEN Ok(r[2][2], r[3]) ELSE r

Skip_parse(self, input) ==
    LET r == And_parse(<<"and", self[2], self[3]>>, input)
    IN  IF IsOk(r) THEN Ok(r[2][1], r[3]) ELSE r

between(open, close, parser) == <<"skip", <<"with", open, parser>>, close>>

Message_parse(self, input) ==
    LET r == Parse(self[2], input)
    IN  IF IsErr(r) THEN Err(add_message(r[2], self[3])) ELSE r

\* a plausible slip: the second parser's error replaces the first's
Or_parse_second(self, input) ==
    LET r1 == Parse(self[2], input)
    IN  IF IsErr(r1) THEN Parse(self[3], input) ELSE r1

Or_parse(self, input) ==
    LET r1 == Parse(self[2], input)
    IN  IF IsErr(r1)
        THEN LET r2 == Parse(self[3], input)
             IN  IF IsErr(r2) THEN Err(merge(r1[2], r2[2])) ELSE r2
        ELSE r1

Map_parse(self, input) ==
    LET r == Parse(self[2], input)
    IN  IF IsOk(r) THEN Ok(MapFn(self[3], r[2]), r[3]) ELSE r

Parse(p, input) ==
    CASE p[1] = "char"     -> char(input)
      [] p[1] = "digit"    -> digit(input)
      [] p[1] = "satisfy"  -> Satisfy_parse(p, input)
      [] p[1] = "string"   -> StringP_parse(p, input)
      [] p[1] = "many"     -> Many_parse(p, input)
      [] p[1] = "many1"    -> Many1_parse(p, input)
      [] p[1] = "sep_by"   -> SepBy_parse(p, input)
      [] p[1] = "optional" -> Optional_parse(p, input)
      [] p[1] = "and"      -> And_parse(p, input)
      [] p[1] = "with"     -> With_parse(p, input)
      [] p[1] = "skip"     -> Skip_parse(p, input)
      [] p[1] = "message"  -> Message_parse(p, input)
      [] p[1] = "or"       -> Or_parse(p, input)
      [] p[1] = "map"      -> Map_parse(p, input)

(***************************************************************************)
(* The parsers the caller builds.                                          *)
(***************************************************************************)
is_a       == <<"satisfy", "is_a">>
is_comma   == <<"satisfy", "is_comma">>
space      == <<"satisfy", "is_whitespace">>
alnum      == <<"satisfy", "is_alphanumeric">>
integer    == <<"many1", <<"digit">>>>

SatisfyParsers == {is_a, is_comma, space, alnum}
StringParsers  == {<<"string", "a1">>, <<"string", "a,">>, <<"string", "1">>}

ManyArgs == {<<"char">>, <<"digit">>, is_a, space, <<"string", "a1">>,
             <<"and", is_a, is_comma>>,
             <<"optional", is_a>>, <<"many", is_a>>}
Many1Args == {<<"digit">>, is_a, alnum, <<"string", "a,">>}
SepByItems == {is_a, <<"digit">>, integer, alnum, <<"string", "a1">>}
SepBySeps  == {is_comma, space, <<"string", "a,">>}
OptionalArgs == {is_a, <<"digit">>, <<"string", "a1">>, <<"string", "a,">>,
                 <<"and", is_a, is_comma>>, integer}
SeqArgs == {is_a, is_comma, <<"digit">>, <<"many", space>>}
BetweenBodies == {<<"digit">>, <<"many", is_a>>}
MessageArgs == {is_a, <<"digit">>, <<"string", "a1">>,
                <<"or", is_a, <<"digit">>>>}
Labels == {"m1", "Expected digit"}
OrArgs == {is_a, is_comma, <<"digit">>, <<"string", "a1">>,
           <<"message", is_a, "Expected digit">>, <<"and", is_a, is_comma>>}
AssocArgs == {is_a, <<"digit">>, <<"message", is_a, "m1">>,
              <<"message", <<"digit">>, "m1">>}
MapArgs == {<<"map", is_a, "Id">>, <<"map", integer, "Int">>,
            <<"map", <<"string", "a1">>, "Id">>}

(***************************************************************************)
(* Spec: a caller that parses an input piece by piece.                     *)
(***************************************************************************)
\* no run of the many_append loop
NoRun == [parser |-> <<"none">>, vec |-> <<>>, input |-> State_new(<<>>),
          pc |-> "idle", iters |-> 0, from |-> State_new(<<>>)]

NoCall == [p |-> <<"none">>, s |-> State_new(<<>>), r |-> <<"None">>]

Idle == last.p[1] = "none"

\* Parser::start_parse
Init ==
    /\ \E input \in Inputs : state = State_new(input)
    /\ consumed = <<>>
    /\ last = NoCall
    /\ run = NoRun
    /\ error1 = ParseError_new(start, Message("End of input"))
    /\ error2 = ParseError_new(start, Message("End of input"))

\* the record of a call of Parser::parse on a clone of the caller's state
Called(p) == [p |-> p, s |-> state, r |-> Parse(p, state)]

CallChar ==
    /\ Idle
    /\ last' = Called(<<"char">>)
    /\ UNCHANGED <<state, consumed, error1, error2, run>>

CallDigit ==
    /\ Idle
    /\ last' = Called(<<"digit">>)
    /\ UNCHANGED <<state, consumed, error1, error2, run>>

CallSatisfy ==
    /\ Idle
    /\ \E p \in SatisfyParsers :
           last' = Called(p)
    /\ UNCHANGED <<state, consumed, error1, error2, run>>

CallString ==
    /\ Idle
    /\ \E p \in StringParsers :
           last' = Called(p)
    /\ UNCHANGED <<state, consumed, error1, error2, run>>

CallMany ==
    /\ Idle
    /\ \E p \in ManyArgs :
           last' = Called(<<"many", p>>)
    /\ UNCHANGED <<state, consumed, error1, error2, run>>

CallMany1 ==
    /\ Idle
    /\ \E p \in Many1Args :
           last' = Called(<<"many1", p>>)
    /\ UNCHANGED <<state, consumed, error1, error2, run>>

CallSepBy ==
    /\ Idle
    /\ \E p \in SepByItems, sep \in SepBySeps :
           last' = Called(<<"sep_by", p, sep>>)
    /\ UNCHANGED <<state, consumed, error1, error2, run>>

CallOptional ==
    /\ Idle
    /\ \E p \in OptionalArgs :
           last' = Called(<<"optional", p>>)
    /\ UNCHANGED <<state, consumed, error1, error2, run>>

CallAnd ==
    /\ Idle
    /\ \E p \in SeqArgs, q \in SeqArgs :
           last' = Called(<<"and", p, q>>)
    /\ UNCHANGED <<state, consumed, error1, error2, run>>

CallWith ==
    /\ Idle
    /\ \E p \in SeqArgs, q \in SeqArgs :
           last' = Called(<<"with", p, q>>)
    /\ UNCHANGED <<state, consumed, error1, error2, run>>

CallSkip ==
    /\ Idle
    /\ \E p \in SeqArgs, q \in SeqArgs :
           last' = Called(<<"skip", p, q>>)
    /\ UNCHANGED <<state, consumed, error1, error2, run>>

CallBetween ==
    /\ Idle
    /\ \E close \in {is_comma, is_a}, body \in BetweenBodies :
           last' = Called(between(is_comma, close, body))
    /\ UNCHANGED <<state, consumed, error1, error2, run>>

CallMessage ==
    /\ Idle
    /\ \E p \in MessageArgs, msg \in Labels :
           last' = Called(<<"message", p, msg>>)
    /\ UNCHANGED <<state, consumed, error1, error2, run>>

CallOr ==
    /\ Idle
    /\ \E p \in OrArgs, q \in OrArgs :
           last' = Called(<<"or", p, q>>)
    /\ UNCHANGED <<state, consumed, error1, error2, run>>

CallOrOr ==
    /\ Idle
    /\ \E p \in AssocArgs, q \in AssocArgs, r \in AssocArgs :
           last' = Called(<<"or", <<"or", p, q>>, r>>)
    /\ UNCHANGED <<state, consumed, error1, error2, run>>

CallMap ==
    /\ Idle
    /\ \E p \in MapArgs :
           last' = Called(p)
    /\ UNCHANGED <<state, consumed, error1, error2, run>>

\* the caller takes the state of a success: let (x, input) = try!(...)
Continue ==
    /\ IsOk(last.r)
    /\ state' = last.r[3]
    /\ consumed' = consumed \o
          SubSeq(state.input, 1, Len(state.input) - Len(last.r[3].input))
    /\ last' = NoCall
    /\ UNCHANGED <<error1, error2, run>>

\* the caller drops the error and keeps the state it cloned
Recover ==
    /\ IsErr(last.r)
    /\ last' = NoCall
    /\ UNCHANGED <<state, consumed, error1, error2, run>>

Next ==
    \/ CallChar
    \/ CallDigit
    \/ CallSatisfy
    \/ CallString
    \/ CallMany
    \/ CallMany1
    \/ CallSepBy
    \/ CallOptional
    \/ CallAnd
    \/ CallWith
    \/ CallSkip
    \/ CallBetween
    \/ CallMessage
    \/ CallOr
    \/ CallOrOr
    \/ CallMap
    \/ Continue
    \/ Recover

Spec == Init /\ [][Next]_vars

(***************************************************************************)
(* ErrSpec: the ParseError values the operations of ParseError build.      *)
(***************************************************************************)
Reasons == {Unexpected("a"), Expected("a1"),
            Message("End of input"), Message("m1")}
Texts == {"End of input", "m1"}
ErrPositions == {start, [line |-> 1, column |-> 2]}

ErrInit ==
    /\ \E pos \in ErrPositions, e \in Reasons :
           error1 = ParseError_new(pos, e)
    /\ \E pos \in ErrPositions, e \in Reasons :
           error2 = ParseError_new(pos, e)
    /\ state = State_new(<<>>)
    /\ consumed = <<>>
    /\ last = NoCall
    /\ run = NoRun

ErrNew ==
    /\ \E pos \in ErrPositions, e \in Reasons :
           error2' = ParseError_new(pos, e)
    /\ UNCHANGED <<error1, state, consumed, last, run>>

ErrAddError ==
    /\ \E e \in Reasons : error1' = add_error(error1, e)
    /\ UNCHANGED <<error2, state, consumed, last, run>>

ErrAddMessage ==
    /\ \E m \in Texts : error1' = add_message(error1, m)
    /\ UNCHANGED <<error2, state, consumed, last, run>>

ErrMerge ==
    /\ error1' = merge(error1, error2)
    /\ UNCHANGED <<error2, state, consumed, last, run>>

ErrMergeInto ==
    /\ error2' = merge(error2, error1)
    /\ UNCHANGED <<error1, state, consumed, last, run>>

ErrNext ==
    \/ ErrNew
    \/ ErrAddError
    \/ ErrAddMessage
    \/ ErrMerge
    \/ ErrMergeInto

ErrSpec == ErrInit /\ [][ErrNext]_vars

(***************************************************************************)
(* LoopSpec: the loop of ManyAppend::parse, one iteration a step.          *)
(* run.parser, run.vec and run.input are self.parser, self.vec and input;  *)
(* run.pc is "loop" in the loop and "done" after the break; run.iters      *)
(* counts the iterations begun and run.from keeps the state of the call.   *)
(***************************************************************************)
LoopParsers == {<<"char">>, <<"digit">>, is_a, <<"string", "a1">>,
                <<"with", is_comma, is_a>>,
                <<"optional", is_a>>, <<"many", is_a>>,
                <<"many", <<"optional", is_a>>>>}

\* the position after the characters chars, from position pos
RECURSIVE Advance(_, _)
Advance(pos, chars) ==
    IF chars = <<>> THEN pos
    ELSE Advance(update(pos, Head(chars)), Tail(chars))

\* the states a parse of an input of Inputs passes through
LoopStates ==
    UNION {{[position |-> Advance(start, SubSeq(i, 1, k)),
             input |-> SubSeq(i, k + 1, Len(i))] : k \in 0..Len(i)} :
           i \in Inputs}

\* self.parser.parse(input.clone()), tabulated: the result of each parser of
\* LoopParsers on each state of LoopStates
Applications ==
    [p \in LoopParsers |-> [s \in LoopStates |-> Parse(p, s)]]

Applied(p, s) == Applications[p][s]

LoopInit ==
    /\ run = NoRun
    /\ state = State_new(<<>>)
    /\ consumed = <<>>
    /\ last = NoCall
    /\ error1 = ParseError_new(start, Message("End of input"))
    /\ error2 = ParseError_new(start, Message("End of input"))

\* many_append(p, &mut result).parse(input) on the input of a start_parse
ManyAppendCall ==
    /\ run.pc = "idle"
    /\ \E p \in LoopParsers, input \in Inputs :
           run' = [parser |-> p, vec |-> <<>>, input |-> State_new(input),
                   pc |-> "loop", iters |-> 0, from |-> State_new(input)]
    /\ UNCHANGED <<state, consumed, last, error1, error2>>

\* a plausible slip: input = rest is missing
ManyAppendOk_keep ==
    /\ run.pc = "loop"
    /\ run.iters < MaxIter
    /\ LET r == Applied(run.parser, run.input)
       IN  /\ IsOk(r)
           /\ run' = [run EXCEPT !.vec = Append(@, r[2]),
                                 !.iters = @ + 1]
    /\ UNCHANGED <<state, consumed, last, error1, error2>>

\* Ok((x, rest)) => { self.vec.push(x); input = rest; }
ManyAppendOk ==
    /\ run.pc = "loop"
    /\ run.iters < MaxIter
    /\ LET r == Applied(run.parser, run.input)
       IN  /\ IsOk(r)
           /\ run' = [run EXCEPT !.vec = Append(@, r[2]),
                                 !.input = r[3],
                                 !.iters = @ + 1]
    /\ UNCHANGED <<state, consumed, last, error1, error2>>

\* Err(_) => break, then Ok(((), input))
ManyAppendErr ==
    /\ run.pc = "loop"
    /\ IsErr(Applied(run.parser, run.input))
    /\ run' = [run EXCEPT !.pc = "done", !.iters = @ + 1]
    /\ UNCHANGED <<state, consumed, last, error1, error2>>

LoopNext ==
    \/ ManyAppendCall
    \/ ManyAppendOk
    \/ ManyAppendErr

\* the loop is sequential code: an iteration that can run does run
LoopSpec ==
    LoopInit /\ [][LoopNext]_vars /\ WF_vars(ManyAppendOk \/ ManyAppendErr)

(***************************************************************************)
(* Properties.                                                             *)
(***************************************************************************)
Range(seq) == {seq[i] : i \in DOMAIN seq}

IsPrefix(s, t) == Len(s) <= Len(t) /\ SubSeq(t, 1, Len(s)) = s

\* the (line, then column) ordering of positions
PosLE(a, b) == a.line < b.line \/ (a.line = b.line /\ a.column <= b.column)

\* C1: or(p, q) returns p's success; when p fails with E1 it returns the
\* success of q run on the state or was given; when q fails too, with E2, it
\* fails at E1's position with E1's reasons followed by the reasons of E2
\* that E1 does not have.
OrContract ==
    last.p[1] = "or" =>
        LET r1 == Parse(last.p[2], last.s)
            r2 == Parse(last.p[3], last.s)
        IN  /\ IsOk(r1) => last.r = r1
            /\ (IsErr(r1) /\ IsOk(r2)) => last.r = r2
            /\ (IsErr(r1) /\ IsErr(r2)) =>
                   /\ IsErr(last.r)
                   /\ last.r[2].position = r1[2].position
                   /\ last.r[2].errors =
                          r1[2].errors \o
                          SelectSeq(r2[2].errors,
                                    LAMBDA e : e \notin Range(r1[2].errors))

\* or was called, its first parser failed after consuming input, its second
\* parser failed too and brought a reason of its own
OrContractWitness ==
    /\ last.p[1] = "or"
    /\ IsErr(last.r)
    /\ last.r[2].position # last.s.position
    /\ Len(last.r[2].errors) >= 2

\* or was called, its first parser failed and its second succeeded
OrSecondWitness ==
    /\ last.p[1] = "or"
    /\ IsErr(Parse(last.p[2], last.s))
    /\ IsOk(last.r)

\* C2: when p succeeds at least once, sep_by(p, sep) returns the results of
\* p in input order and the state after the last successful p; a separator
\* that is not followed by a successful p is not consumed.
SepByContract ==
    (last.p[1] = "sep_by" /\ IsOk(Parse(last.p[2], last.s))) =>
        LET p   == last.p[2]
            sep == last.p[3]
            RECURSIVE Rest(_, _)
            \* the values vals are the elements read from state t on
            Rest(t, vals) ==
                LET rs == Parse(sep, t)
                IN  IF vals = <<>>
                    THEN /\ t = last.r[3]
                         /\ \/ IsErr(rs)
                            \/ IsOk(rs) /\ IsErr(Parse(p, rs[3]))
                    ELSE /\ IsOk(rs)
                         /\ LET rp == Parse(p, rs[3])
                            IN  /\ IsOk(rp)
                                /\ rp[2] = Head(vals)
                                /\ Rest(rp[3], Tail(vals))
            r1 == Parse(p, last.s)
        IN  /\ IsOk(last.r)
            /\ Len(last.r[2]) >= 1
            /\ r1[2] = Head(last.r[2])
            /\ Rest(r1[3], Tail(last.r[2]))

\* sep_by returned an element and stopped before a separator that succeeds
\* there and that no element follows
SepByWitness ==
    /\ last.p[1] = "sep_by"
    /\ IsOk(last.r)
    /\ Len(last.r[2]) >= 1
    /\ IsOk(Parse(last.p[3], last.r[3]))

\* C3: many(p), when it returns, returns a success: the results of p in the
\* order of the applications, and the state on which p failed.
ManyContract ==
    (last.p[1] = "many" /\ last.r # Diverge) =>
        LET p == last.p[2]
            RECURSIVE Rest(_, _)
            Rest(t, vals) ==
                LET rp == Parse(p, t)
                IN  IF vals = <<>>
                    THEN t = last.r[3] /\ IsErr(rp)
                    ELSE /\ IsOk(rp)
                         /\ rp[2] = Head(vals)
                         /\ Rest(rp[3], Tail(vals))
        IN  /\ IsOk(last.r)
            /\ Rest(last.s, last.r[2])

\* many returned two results or more and stopped before the end of the input
ManyWitness ==
    /\ last.p[1] = "many"
    /\ IsOk(last.r)
    /\ Len(last.r[2]) >= 2
    /\ last.r[3].input # <<>>

\* many returned no result: p failed on the state many was given
ManyEmptyWitness ==
    /\ last.p[1] = "many"
    /\ last.r = Ok(<<>>, last.s)
    /\ last.s.input # <<>>

\* C4: satisfy(pred) fails with Unexpected(c) at the position of the state
\* it was given when the next character c does not satisfy pred, with
\* Message("End of input") at that position when the input is exhausted, and
\* returns c and the state one character further only when pred(c) holds.
SatisfyContract ==
    last.p[1] = "satisfy" =>
        LET S == last.s
            c == Head(S.input)
            next == IF c = "\n"
                    THEN [line |-> S.position.line + 1, column |-> 1]
                    ELSE [line |-> S.position.line,
                          column |-> S.position.column + 1]
        IN  IF S.input = <<>>
            THEN last.r = Err([position |-> S.position,
                               errors |-> <<Message("End of input")>>])
            ELSE IF Pred(last.p[2], c)
            THEN last.r = Ok(c, [position |-> next, input |-> Tail(S.input)])
            ELSE last.r = Err([position |-> S.position,
                               errors |-> <<Unexpected(c)>>])

\* satisfy refused a character on a state that is not the start of the input
SatisfyWitness ==
    /\ last.p[1] = "satisfy"
    /\ IsErr(last.r)
    /\ last.s.input # <<>>
    /\ last.s.position # start

\* C5: no ParseError built by ParseError::new, add_error, add_message and
\* merge has the same reason twice in its errors list.
NoDuplicateErrors ==
    \A e \in {error1, error2} :
        \A i, j \in DOMAIN e.errors : e.errors[i] = e.errors[j] => i = j

\* an error that holds every reason: built by additions and merges that met
\* reasons it already had
NoDuplicateWitness ==
    /\ Range(error1.errors) = Reasons
    /\ Len(error2.errors) >= 2
    /\ Range(error2.errors) \subseteq Range(error1.errors)

\* C6: a success returns a state whose position is not before the position
\* of the state the parser was given, and is the same position when the
\* parser consumed no token.
MonotoneSuccess ==
    IsOk(last.r) =>
        /\ PosLE(last.s.position, last.r[3].position)
        /\ last.r[3].input = last.s.input =>
               last.r[3].position = last.s.position

\* a success that consumed a newline from a column further than 1: the line
\* grows and the column shrinks
MonotoneWitness ==
    /\ IsOk(last.r)
    /\ last.r[3].position.line > last.s.position.line
    /\ last.r[3].position.column < last.s.position.column

\* a success that consumed nothing on a state that is not the start
MonotoneZeroWitness ==
    /\ IsOk(last.r)
    /\ last.r[3].input = last.s.input
    /\ last.s.position # start
    /\ last.s.input # <<>>

\* C7: a parse starts at line 1, column 1; after any characters consumed
\* the line is 1 + the number of newlines consumed and the column is
\* 1 + the number of characters consumed since the last newline.
PositionTracking ==
    LET RECURSIVE Newlines(_)
        Newlines(s) ==
            IF s = <<>> THEN 0
            ELSE Newlines(Tail(s)) + (IF Head(s) = "\n" THEN 1 ELSE 0)
        RECURSIVE SinceNewline(_)
        SinceNewline(s) ==
            IF s = <<>> \/ s[Len(s)] = "\n" THEN 0
            ELSE 1 + SinceNewline(SubSeq(s, 1, Len(s) - 1))
    IN  /\ state.position = [line   |-> 1 + Newlines(consumed),
                             column |-> 1 + SinceNewline(consumed)]
        /\ IsOk(last.r) =>
               LET all == consumed \o
                       SubSeq(last.s.input, 1,
                              Len(last.s.input) - Len(last.r[3].input))
               IN  last.r[3].position = [line   |-> 1 + Newlines(all),
                                         column |-> 1 + SinceNewline(all)]

\* a newline, a digit and a newline were consumed: line 3, column 1
PositionWitness ==
    /\ consumed = <<"\n", "1", "\n">>
    /\ state.position = [line |-> 3, column |-> 1]

\* C8: optional(p) returns (Some(v), S') when p succeeds with v and S', and
\* (None, S), S being the state it was given, when p fails.
OptionalContract ==
    last.p[1] = "optional" =>
        LET r == Parse(last.p[2], last.s)
        IN  /\ r # Diverge => IsOk(last.r)
            /\ IsOk(r) => last.r = Ok(<<"Some", r[2]>>, r[3])
            /\ IsErr(r) => last.r = Ok(<<"None">>, last.s)

\* optional was called with a parser that failed after consuming input
OptionalWitness ==
    /\ last.p[1] = "optional"
    /\ last.r = Ok(<<"None">>, last.s)
    /\ IsErr(Parse(last.p[2], last.s))
    /\ Parse(last.p[2], last.s)[2].position # last.s.position

\* C9: when p, q and r fail at the same position, (p.or(q)).or(r) and
\* p.or(q.or(r)) fail with the same position and the same set of reasons.
OrAssociative ==
    (last.p[1] = "or" /\ last.p[2][1] = "or") =>
        LET p  == last.p[2][2]
            q  == last.p[2][3]
            r  == last.p[3]
            e1 == Parse(p, last.s)
            e2 == Parse(q, last.s)
            e3 == Parse(r, last.s)
            right == Parse(<<"or", p, <<"or", q, r>>>>, last.s)
        IN  (/\ IsErr(e1) /\ IsErr(e2) /\ IsErr(e3)
             /\ e1[2].position = e2[2].position
             /\ e2[2].position = e3[2].position) =>
                /\ IsErr(last.r)
                /\ IsErr(right)
                /\ right[2].position = last.r[2].position
                /\ Range(right[2].errors) = Range(last.r[2].errors)

\* (p.or(q)).or(r) failed with three reasons, q and r failing at the
\* position of p with two reasons each
OrAssociativeWitness ==
    /\ last.p[1] = "or"
    /\ last.p[2][1] = "or"
    /\ IsErr(last.r)
    /\ Len(last.r[2].errors) >= 3
    /\ LET e2 == Parse(last.p[2][3], last.s)
           e3 == Parse(last.p[3], last.s)
       IN  /\ IsErr(e2) /\ Len(e2[2].errors) >= 2
           /\ IsErr(e3) /\ Len(e3[2].errors) >= 2
           /\ e2[2].position = last.r[2].position
           /\ e3[2].position = last.r[2].position

\* C10 as stated: every reason of the error or returns was raised at
\* the position the error carries.  Stated for alternatives that are
\* primitive parsers, whose error is one ParseError::new at one position.
ReasonsRaisedAtPosition ==
    LET Primitive(p) == p[1] \in {"char", "digit", "satisfy", "string"}
    IN  (/\ last.p[1] = "or"
         /\ Primitive(last.p[2])
         /\ Primitive(last.p[3])
         /\ IsErr(last.r)) =>
            LET e1 == Parse(last.p[2], last.s)[2]
                e2 == Parse(last.p[3], last.s)[2]
            IN  \A e \in Range(last.r[2].errors) :
                    \/ /\ e \in Range(e1.errors)
                       /\ e1.position = last.r[2].position
                    \/ /\ e \in Range(e2.errors)
                       /\ e2.position = last.r[2].position

\* C10, amended: the error of or carries the position of the first
\* alternative's error, the error of message the position of the wrapped
\* parser's error; both keep the reasons of that error and only add reasons
\* (those of the second alternative, wherever they were raised; the label).
MergeOnlyAddsReasons ==
    /\ (last.p[1] = "or" /\ IsErr(last.r)) =>
           LET e1 == Parse(last.p[2], last.s)[2]
               e2 == Parse(last.p[3], last.s)[2]
           IN  /\ last.r[2].position = e1.position
               /\ IsPrefix(e1.errors, last.r[2].errors)
               /\ Range(last.r[2].errors) =
                      Range(e1.errors) \cup Range(e2.errors)
    /\ (last.p[1] = "message" /\ IsErr(last.r)) =>
           LET e == Parse(last.p[2], last.s)[2]
           IN  /\ last.r[2].position = e.position
               /\ IsPrefix(e.errors, last.r[2].errors)
               /\ Range(last.r[2].errors) =
                      Range(e.errors) \cup {Message(last.p[3])}

\* or failed and took a reason of its second alternative, which failed at
\* another position than the first
MergeWitness ==
    /\ last.p[1] = "or"
    /\ IsErr(last.r)
    /\ LET e1 == Parse(last.p[2], last.s)[2]
           e2 == Parse(last.p[3], last.s)[2]
       IN  /\ e1.position # e2.position
           /\ Range(e2.errors) \ Range(e1.errors) # {}

\* the application of p the loop is about to make succeeds and returns the
\* state it was given
Stalls ==
    /\ run.pc = "loop"
    /\ LET r == Applied(run.parser, run.input)
       IN  IsOk(r) /\ r[3] = run.input

\* the application of p the loop is about to make does not return
Hangs ==
    /\ run.pc = "loop"
    /\ Applied(run.parser, run.input) = Diverge

ManyStallWitness ==
    /\ Stalls
    /\ run.input # run.from
    /\ run.iters >= 4

\* the loop and the operator ManyAppend_parse agree: the loop ends with the
\* operator's result, and stalls or hangs only where the operator diverges
LoopAgreesWithOperator ==
    LET whole == ManyAppend_parse(run.parser, <<>>, run.from)
    IN  /\ run.pc = "done" => whole = Ok(run.vec, run.input)
        /\ (Stalls \/ Hangs) => whole = Diverge

=============================================================================
